---------------------------- MODULE Spec2Model ----------------------------
(***************************************************************************)
(* QtWebEngine downloads of qutebrowser                                    *)
(* (qutebrowser/browser/webengine/webenginedownloads.py): the DownloadItem *)
(* wrapper over the engine's download request, the suggested-filename      *)
(* normalisation and DownloadManager.handle_download.                      *)
(*                                                                         *)
(* File names are sequences of one-character strings, paths are sequences  *)
(* of components (file names).                                             *)
(***************************************************************************)
EXTENDS Integers, Sequences, FiniteSets, TLC

(***************************************************************************)
(* Bounds of the model.                                                    *)
(***************************************************************************)
\* Download requests the engine raises in one run.
MaxDownloads == 2
\* Calls of retry() in one run.
MaxRetries == 1
\* Reservations of a special target (get_mhtml) in one run.
MaxReservations == 2
\* The bytes of a transfer: what a progress event reports as received.
MaxReceived == 1
\* The pieces a file name is put together from.
MaxPieces == 3
\* The downloads of the qtnetwork download manager in a conflict lookup.
MaxSiblings == 1

(***************************************************************************)
(* Text helpers.                                                           *)
(***************************************************************************)
Digits == {"0", "1", "2", "3", "4", "5", "6", "7", "8", "9"}

\* s[a..b], empty when a > b
Slice(s, a, b) == IF a > b THEN <<>> ELSE SubSeq(s, a, b)

\* the position after the run of digits that starts at position k of s
RECURSIVE DigitsEnd(_, _)
DigitsEnd(s, k) ==
    IF k <= Len(s) /\ s[k] \in Digits THEN DigitsEnd(s, k + 1) ELSE k

\* (?=\.|$): the extension begins at position e, or the name ends there
Lookahead(s, e) == e > Len(s) \/ s[e] = "."

\* \([0-9]+\) at position j, followed by the lookahead: the position after
\* the match, 0 when there is none
NumSuffixEnd(s, j) ==
    IF j <= Len(s) /\ s[j] = "("
    THEN LET k == DigitsEnd(s, j + 1)
         IN  IF k > j + 1 /\ k <= Len(s) /\ s[k] = ")" /\ Lookahead(s, k + 1)
             THEN k + 1 ELSE 0
    ELSE 0

\* \ -\ \d{4}-\d{2}-\d{2}T\d{2}:\d{2}:\d{2}.\d{3}Z ; "d" is a digit, "?" the
\* unescaped dot of the pattern (any character)
IsoPattern ==
    << " ", "-", " ", "d", "d", "d", "d", "-", "d", "d", "-", "d", "d", "T",
       "d", "d", ":", "d", "d", ":", "d", "d", "?", "d", "d", "d", "Z" >>

IsoSuffixEnd(s, j) ==
    LET n == Len(IsoPattern)
    IN  IF /\ j + n - 1 <= Len(s)
           /\ \A k \in 1..n :
                 CASE IsoPattern[k] = "d" -> s[j + k - 1] \in Digits
                   [] IsoPattern[k] = "?" -> TRUE
                   [] OTHER -> s[j + k - 1] = IsoPattern[k]
           /\ Lookahead(s, j + n)
        THEN j + n ELSE 0

\* the two alternatives of the group at position j
AltEnd(s, j) ==
    IF NumSuffixEnd(s, j) # 0 THEN NumSuffixEnd(s, j) ELSE IsoSuffixEnd(s, j)

\* suffix_re at position i: the optional space is tried first, then skipped
SuffixMatchEnd(s, i) ==
    IF i <= Len(s) /\ s[i] = " " /\ AltEnd(s, i + 1) # 0
    THEN AltEnd(s, i + 1)
    ELSE AltEnd(s, i)

\* suffix_re.sub('', s) from position i on: matches are removed left to right
RECURSIVE SubFrom(_, _)
SubFrom(s, i) ==
    IF i > Len(s) THEN <<>>
    ELSE IF SuffixMatchEnd(s, i) # 0 THEN SubFrom(s, SuffixMatchEnd(s, i))
    ELSE <<s[i]>> \o SubFrom(s, i + 1)

_strip_suffix(filename) == SubFrom(filename, 1)


(***************************************************************************)
(* Paths and the names used in the runs.                                   *)
(***************************************************************************)
None == <<>>

\* os.path.split / os.path.dirname / os.path.basename of a path
dirname(path) == Slice(path, 1, Len(path) - 1)
basename(path) == path[Len(path)]

DownloadDir == << <<"d">> >>          \* an existing directory
MissingDir == << <<"n">> >>           \* a directory that does not exist yet
TempDir == << <<"t">> >>              \* the directory of the temporary files

NameAB == <<"a", ".", "b">>
NameOld == <<"o">>

\* the file names the user answers the filename question with
AnswerPaths ==
    { DownloadDir \o <<NameAB>>, DownloadDir \o <<NameOld>>,
      MissingDir \o <<NameAB>> }

\* the file the temporary download manager hands out for a download
TempFile(name) == TempDir \o <<name>>

Origins == {"page1", "page2"}

(***************************************************************************)
(* The engine's states (QWebEngineDownloadRequest.DownloadState).          *)
(***************************************************************************)
DownloadRequested == "DownloadRequested"
DownloadInProgress == "DownloadInProgress"
DownloadCompleted == "DownloadCompleted"
DownloadCancelled == "DownloadCancelled"
DownloadInterrupted == "DownloadInterrupted"

DownloadStates ==
    { DownloadRequested, DownloadInProgress, DownloadCompleted,
      DownloadCancelled, DownloadInterrupted }

VARIABLES
    downloads,       \* the manager's items, in creation order
    _mhtml_target,   \* DownloadManager._mhtml_target
    reservations,    \* number of get_mhtml calls that reserved a target
    retries,         \* number of retry() calls
    files,           \* the files that exist
    dirs,            \* the directories that exist
    op               \* the last operation: name, item, exception, trace

vars == <<downloads, _mhtml_target, reservations, retries, files, dirs, op>>

Ids == 1..Len(downloads)

(***************************************************************************)
(* The trace of one handler: the engine commands it issued and the signals *)
(* it emitted, each with the item's flags and the engine's state at that   *)
(* moment.                                                                 *)
(***************************************************************************)
Entry(it, kind, name, arg) ==
    [k |-> kind, n |-> name, arg |-> arg,
     done |-> it.done, successful |-> it.successful, qstate |-> it.qstate]

Log(it, kind, name, arg) ==
    [it EXCEPT !.log = Append(@, Entry(it, kind, name, arg))]

Raise(it, exception) == [it EXCEPT !.exc = exception]

Called(log, name) == \E k \in 1..Len(log) : log[k].k = "call" /\ log[k].n = name
Emitted(log, name) == \E k \in 1..Len(log) : log[k].k = "emit" /\ log[k].n = name

(***************************************************************************)
(* usertypes.Question.abort, reached through the item's cancelled and      *)
(* error signals.                                                          *)
(***************************************************************************)
QuestionAbort(it) ==
    IF it.question # "none"
    THEN Log([it EXCEPT !.question = "none", !.abortConn = FALSE],
             "question", "abort", None)
    ELSE it

\* signal.emit(): the slots connected to the signal run
Emit(it, signal) ==
    LET e == Log(it, "emit", signal, None)
    IN  IF signal \in {"cancelled", "error"} /\ e.abortConn
        THEN QuestionAbort(e)
        ELSE e

RECURSIVE _on_state_changed(_, _)

(***************************************************************************)
(* The engine's side of the commands: QWebEngineDownloadRequest.           *)
(***************************************************************************)
\* the engine sets its state and emits stateChanged; the slot runs at once
SetDownloadState(it, state) ==
    LET e == [it EXCEPT !.qstate = state, !.pending = "none"]
    IN  IF e.stateConn THEN _on_state_changed(e, state) ELSE e

\* cancel(): nothing in a final state; a running transfer is cancelled by the
\* engine later, a transfer that does not run is cancelled at once
EngineCancel(it) ==
    LET e == Log(it, "call", "cancel", None)
    IN  IF e.qstate \in {DownloadCompleted, DownloadCancelled} THEN e
        ELSE IF e.qstate = DownloadInProgress
        THEN [e EXCEPT !.pending = "cancel"]
        ELSE SetDownloadState(e, DownloadCancelled)

\* resume(): only an interrupted transfer is resumed, by the engine, later
EngineResume(it) ==
    LET e == Log(it, "call", "resume", None)
    IN  IF e.qstate = DownloadInterrupted
        THEN [e EXCEPT !.pending = "resume"]
        ELSE e

\* accept(): only a requested transfer starts
EngineAccept(it) ==
    LET e == Log([it EXCEPT !.accepts = @ + 1], "call", "accept", None)
    IN  IF e.qstate = DownloadRequested
        THEN SetDownloadState(e, DownloadInProgress)
        ELSE e

(***************************************************************************)
(* DownloadItem.                                                           *)
(***************************************************************************)
\* __init__ without the connection of destroyed to the handle's deleteLater
DownloadItem_NoDeleteLater(name, origin) ==
    [ qstate |-> DownloadRequested, pending |-> "none",
      done |-> FALSE, successful |-> FALSE, dead |-> FALSE,
      filename |-> None, basename |-> name, origin |-> origin,
      question |-> "none", abortConn |-> FALSE, force |-> FALSE,
      progressConn |-> TRUE, stateConn |-> TRUE, destroyedConn |-> FALSE,
      destroyed |-> FALSE, released |-> 0, stats |-> 0, accepts |-> 0,
      exc |-> "none", log |-> <<>> ]

\* DownloadItem.__init__: the connections to the engine's signals
DownloadItem(name, origin) ==
    [ qstate |-> DownloadRequested, pending |-> "none",
      done |-> FALSE, successful |-> FALSE, dead |-> FALSE,
      filename |-> None, basename |-> name, origin |-> origin,
      question |-> "none", abortConn |-> FALSE, force |-> FALSE,
      progressConn |-> TRUE, stateConn |-> TRUE, destroyedConn |-> TRUE,
      destroyed |-> FALSE, released |-> 0, stats |-> 0, accepts |-> 0,
      exc |-> "none", log |-> <<>> ]

\* _do_die that tells the engine to cancel in every state
_do_die_AlwaysCancel(it) ==
    EngineCancel(Log([it EXCEPT !.progressConn = FALSE],
                     "call", "disconnect", None))

\* disconnect() of a signal that has no connection raises TypeError (PyQt)
_do_die(it) ==
    LET e == Log([it EXCEPT !.progressConn = FALSE], "call", "disconnect", None)
    IN  IF ~it.progressConn THEN Raise(e, "TypeError")
        ELSE IF e.qstate # DownloadInterrupted THEN EngineCancel(e)
        ELSE e

\* _die without the flag that tells a repeated disposal
_die_Unguarded(it) ==
    LET e == _do_die([it EXCEPT !.dead = TRUE])
    IN  IF e.exc # "none" THEN e
        ELSE Emit([e EXCEPT !.done = TRUE], "error")

\* AbstractDownloadItem._die: disposal, once
_die(it) ==
    IF it.dead THEN it
    ELSE Emit([_do_die([it EXCEPT !.dead = TRUE]) EXCEPT !.done = TRUE],
              "error")

\* stats.on_download_progress, the slot of the engine's progress signals
on_download_progress(it, received) == [it EXCEPT !.stats = received]

\* _on_state_changed that lets a state it does not know pass
_on_state_changed_IgnoresUnknown(it, state) ==
    CASE state = DownloadRequested -> it
      [] state = DownloadInProgress -> it
      [] state = DownloadCompleted ->
            Log(Emit([it EXCEPT !.successful = TRUE, !.done = TRUE], "finished"),
                "call", "stats.finish", None)
      [] state = DownloadCancelled ->
            Log(Emit([it EXCEPT !.successful = FALSE, !.done = TRUE], "cancelled"),
                "call", "stats.finish", None)
      [] state = DownloadInterrupted ->
            _die([it EXCEPT !.successful = FALSE])
      [] OTHER -> it

\* _on_state_changed that notifies the observers before it sets the flags
_on_state_changed_EmitFirst(it, state) ==
    CASE state = DownloadRequested -> it
      [] state = DownloadInProgress -> it
      [] state = DownloadCompleted ->
            Log([Emit(it, "finished") EXCEPT !.successful = TRUE, !.done = TRUE],
                "call", "stats.finish", None)
      [] state = DownloadCancelled ->
            Log([Emit(it, "cancelled") EXCEPT !.successful = FALSE, !.done = TRUE],
                "call", "stats.finish", None)
      [] state = DownloadInterrupted ->
            _die([it EXCEPT !.successful = FALSE])
      [] OTHER -> Raise(it, "ValueError")

\* _on_state_changed that reports an interruption itself before the disposal
_on_state_changed_ErrorTwice(it, state) ==
    CASE state = DownloadRequested -> it
      [] state = DownloadInProgress -> it
      [] state = DownloadCompleted ->
            Log(Emit([it EXCEPT !.successful = TRUE, !.done = TRUE], "finished"),
                "call", "stats.finish", None)
      [] state = DownloadCancelled ->
            Log(Emit([it EXCEPT !.successful = FALSE, !.done = TRUE], "cancelled"),
                "call", "stats.finish", None)
      [] state = DownloadInterrupted ->
            _die(Emit([it EXCEPT !.successful = FALSE], "error"))
      [] OTHER -> Raise(it, "ValueError")

\* _on_state_changed that leaves successful as it is when a transfer is
\* cancelled
_on_state_changed_KeepsSuccessful(it, state) ==
    CASE state = DownloadRequested -> it
      [] state = DownloadInProgress -> it
      [] state = DownloadCompleted ->
            Log(Emit([it EXCEPT !.successful = TRUE, !.done = TRUE], "finished"),
                "call", "stats.finish", None)
      [] state = DownloadCancelled ->
            Log(Emit([it EXCEPT !.done = TRUE], "cancelled"),
                "call", "stats.finish", None)
      [] state = DownloadInterrupted ->
            _die([it EXCEPT !.successful = FALSE])
      [] OTHER -> Raise(it, "ValueError")

\* _on_state_changed that takes a download that runs again for not done
_on_state_changed_Reopen(it, state) ==
    CASE state = DownloadRequested -> it
      [] state = DownloadInProgress -> [it EXCEPT !.done = FALSE]
      [] state = DownloadCompleted ->
            Log(Emit([it EXCEPT !.successful = TRUE, !.done = TRUE], "finished"),
                "call", "stats.finish", None)
      [] state = DownloadCancelled ->
            Log(Emit([it EXCEPT !.successful = FALSE, !.done = TRUE], "cancelled"),
                "call", "stats.finish", None)
      [] state = DownloadInterrupted ->
            _die([it EXCEPT !.successful = FALSE])
      [] OTHER -> Raise(it, "ValueError")

_on_state_changed(it, state) ==
    CASE state = DownloadRequested -> it
      [] state = DownloadInProgress -> it
      [] state = DownloadCompleted ->
            Log(Emit([it EXCEPT !.successful = TRUE, !.done = TRUE], "finished"),
                "call", "stats.finish", None)
      [] state = DownloadCancelled ->
            Log(Emit([it EXCEPT !.successful = FALSE, !.done = TRUE], "cancelled"),
                "call", "stats.finish", None)
      [] state = DownloadInterrupted ->
            _die([it EXCEPT !.successful = FALSE])
      [] OTHER -> Raise(it, "ValueError")

\* _do_cancel without the assertion on the engine's state
_do_cancel_Unchecked(it) == EngineCancel(it)

_do_cancel(it) ==
    IF it.qstate \in {DownloadCompleted, DownloadCancelled}
    THEN Raise(it, "AssertionError")
    ELSE EngineCancel(it)

\* AbstractDownloadItem.cancel
cancel(it, remove_data) ==
    LET e == _do_cancel(it)
    IN  IF e.exc # "none" THEN e
        ELSE IF remove_data /\ e.filename # None
        THEN Log(e, "fs", "delete", e.filename)
        ELSE e

\* retry() that refuses only a completed download
retry_UnlessCompleted(it) ==
    IF it.qstate = DownloadCompleted
    THEN Log(it, "log", "warning", None)
    ELSE EngineResume(it)

retry(it) ==
    IF it.qstate # DownloadInterrupted
    THEN Log(it, "log", "warning", None)
    ELSE EngineResume(it)

\* _ensure_can_set_filename that refuses only a download that has ended
_ensure_can_set_filename_UnlessEnded(it, filename) ==
    IF it.qstate \in {DownloadCompleted, DownloadCancelled}
    THEN Raise(it, "ValueError")
    ELSE it

_ensure_can_set_filename(it, filename) ==
    IF it.qstate # DownloadRequested THEN Raise(it, "ValueError") ELSE it

\* _after_set_filename that accepts without handing the file name over
_after_set_filename_NoFileName(it) ==
    IF it.filename = None THEN Raise(it, "AssertionError")
    ELSE EngineAccept(
           Log(it, "call", "setDownloadDirectory", dirname(it.filename)))

\* _after_set_filename that accepts before it hands the target over
_after_set_filename_AcceptFirst(it) ==
    IF it.filename = None THEN Raise(it, "AssertionError")
    ELSE Log(Log(EngineAccept(it),
                 "call", "setDownloadDirectory", dirname(it.filename)),
             "call", "setDownloadFileName", <<basename(it.filename)>>)

_after_set_filename(it) ==
    IF it.filename = None THEN Raise(it, "AssertionError")
    ELSE EngineAccept(
           Log(Log(it, "call", "setDownloadDirectory", dirname(it.filename)),
               "call", "setDownloadFileName", <<basename(it.filename)>>))

\* _ask_confirm_question without the connections to question.abort
_ask_confirm_question_NoAbort(it) == [it EXCEPT !.question = "overwrite"]

_ask_confirm_question(it) ==
    [it EXCEPT !.question = "overwrite", !.abortConn = TRUE]

_ask_create_parent_question(it, force_overwrite) ==
    IF it.filename = None THEN Raise(it, "AssertionError")
    ELSE [it EXCEPT !.question = "parent", !.abortConn = TRUE,
                    !.force = force_overwrite]

\* a no_action that cancels with the default remove_data=True
no_action_RemoveData(it) == cancel(it, TRUE)

\* the no_action of both confirmation questions
no_action(it) == cancel(it, FALSE)


(***************************************************************************)
(* Setting the target (AbstractDownloadItem.set_target, _set_filename).    *)
(***************************************************************************)
\* downloads.create_full_filename: a directory gets the item's name appended
create_full_filename(name, filename, ds) ==
    IF filename \in ds THEN filename \o <<name>> ELSE filename

_after_create_parent_question(it, force_overwrite, fs) ==
    IF it.filename = None THEN Raise(it, "AssertionError")
    ELSE LET e == [Log(it, "fs", "makedirs", dirname(it.filename))
                      EXCEPT !.basename = basename(it.filename)]
         IN  IF force_overwrite THEN _after_set_filename(e)
             ELSE IF e.filename \in fs THEN _ask_confirm_question(e)
             ELSE _after_set_filename(e)

_set_filename(it, filename, force_overwrite, fs, ds) ==
    LET c == _ensure_can_set_filename(it, filename)
        e == [c EXCEPT !.filename =
                          create_full_filename(it.basename, filename, ds)]
    IN  IF c.exc # "none" THEN c
        ELSE IF dirname(e.filename) \notin ds
        THEN _ask_create_parent_question(e, force_overwrite)
        ELSE _after_create_parent_question(e, force_overwrite, fs)

_set_tempfile(it, name, fs, ds) == _set_filename(it, name, TRUE, fs, ds)

FileDownloadTarget(filename, force_overwrite) ==
    [kind |-> "file", filename |-> filename,
     force_overwrite |-> force_overwrite]

PDFJSDownloadTarget ==
    [kind |-> "pdfjs", filename |-> None, force_overwrite |-> FALSE]

set_target(it, target, fs, ds) ==
    IF target.kind = "file"
    THEN _set_filename(it, target.filename, target.force_overwrite, fs, ds)
    ELSE _set_tempfile(it, TempFile(it.basename), fs, ds)

\* the yes action of the question that is outstanding
yes_action(it, fs) ==
    LET e == [it EXCEPT !.question = "none", !.abortConn = FALSE]
    IN  IF it.question = "parent"
        THEN _after_create_parent_question(e, it.force, fs)
        ELSE _after_set_filename(e)

(***************************************************************************)
(* Conflicting downloads.                                                  *)
(***************************************************************************)
\* the downloads of the qtnetwork download manager
qtnetwork_downloads ==
    << [basename |-> NameAB, origin |-> "page2", done |-> FALSE] >>

_conflicts_with(it, other) ==
    /\ ~other.done
    /\ other.basename = it.basename
    /\ other.origin = it.origin

NoDownload == [manager |-> "none", index |-> 0]

\* AbstractDownloadItem._get_conflicting_download: the first conflicting
\* download of the item's own manager; the item is number self
super_get_conflicting_download(it, self, own) ==
    LET hits == {k \in 1..Len(own) : k # self /\ _conflicts_with(it, own[k])}
    IN  IF hits = {} THEN NoDownload
        ELSE [manager |-> "webengine",
              index |-> CHOOSE k \in hits : \A m \in hits : k <= m]

\* a lookup that asks the qtnetwork download manager first
_get_conflicting_download_SiblingFirst(it, self, own, sibling) ==
    LET conflicting_download == super_get_conflicting_download(it, self, own)
        hits == {k \in 1..Len(sibling) : _conflicts_with(it, sibling[k])}
    IN  IF hits # {}
        THEN [manager |-> "qtnetwork",
              index |-> CHOOSE k \in hits : \A m \in hits : k <= m]
        ELSE conflicting_download

_get_conflicting_download(it, self, own, sibling) ==
    LET conflicting_download == super_get_conflicting_download(it, self, own)
        hits == {k \in 1..Len(sibling) : _conflicts_with(it, sibling[k])}
    IN  IF conflicting_download # NoDownload THEN conflicting_download
        ELSE IF hits = {} THEN NoDownload
        ELSE [manager |-> "qtnetwork",
              index |-> CHOOSE k \in hits : \A m \in hits : k <= m]

\* AbstractDownloadItem.cancel_for_origin: a conflicting download aborts
\* the new one
cancel_for_origin(it, self, own, sibling) ==
    IF _get_conflicting_download(it, self, own, sibling) # NoDownload
    THEN [download |-> cancel(it, FALSE), cancelled |-> TRUE]
    ELSE [download |-> it, cancelled |-> FALSE]

(***************************************************************************)
(* The suggested filename: DownloadManager.handle_download, first part.    *)
(***************************************************************************)
\* the part of s after the last occurrence of ch: s.split(ch)[-1]
RECURSIVE AfterLast(_, _)
AfterLast(s, ch) ==
    IF s = <<>> THEN <<>>
    ELSE IF s[Len(s)] = ch THEN <<>>
    ELSE AfterLast(Slice(s, 1, Len(s) - 1), ch) \o <<s[Len(s)]>>

Contains(s, ch) == \E k \in 1..Len(s) : s[k] = ch

\* the part of s before the first occurrence of ch: s.split(ch)[0]
RECURSIVE BeforeFirst(_, _)
BeforeFirst(s, ch) ==
    IF s = <<>> \/ s[1] = ch THEN <<>>
    ELSE <<s[1]>> \o BeforeFirst(Tail(s), ch)

\* s.split(ch)[1]; only for an s that contains ch
SecondPart(s, ch) ==
    BeforeFirst(Slice(s, Len(BeforeFirst(s, ch)) + 2, Len(s)), ch)

\* QUrl.scheme().lower()
Lower(scheme) == IF scheme = "DATA" THEN "data" ELSE scheme

\* utils.VersionNumber: a >= b
VersionAtLeast(a, b) ==
    \/ a[1] > b[1]
    \/ a[1] = b[1] /\ a[2] > b[2]
    \/ a[1] = b[1] /\ a[2] = b[2] /\ a[3] >= b[3]

FixedVersion == <<5, 15, 3>>

Fallback ==
    << "q", "u", "t", "e", "b", "r", "o", "w", "s", "e", "r", "-",
       "d", "o", "w", "n", "l", "o", "a", "d" >>

wrong_filename(url, mime_type) ==
    IF Contains(AfterLast(url.path, ","), "/")
    THEN AfterLast(url.path, "/")
    ELSE SecondPart(mime_type, "/")

\* mime_type.split('/')[1] raises IndexError for a MIME type without a slash
workaround_raises(version, url, mime_type) ==
    /\ ~VersionAtLeast(version, FixedVersion)
    /\ Lower(url.scheme) = "data"
    /\ ~Contains(AfterLast(url.path, ","), "/")
    /\ ~Contains(mime_type, "/")

needs_workaround_CaseSensitive(version, url, mime_type, qt_filename) ==
    IF VersionAtLeast(version, FixedVersion) THEN FALSE
    ELSE IF url.scheme = "data"
    THEN qt_filename = wrong_filename(url, mime_type)
    ELSE FALSE

needs_workaround(version, url, mime_type, qt_filename) ==
    IF VersionAtLeast(version, FixedVersion) THEN FALSE
    ELSE IF Lower(url.scheme) = "data"
    THEN qt_filename = wrong_filename(url, mime_type)
    ELSE FALSE

\* urlutils.filename_from_url
filename_from_url(url, fallback) ==
    IF Lower(url.scheme) = "data" THEN fallback
    ELSE IF AfterLast(url.path, "/") # <<>> THEN AfterLast(url.path, "/")
    ELSE fallback

suggested_filename(version, req) ==
    IF needs_workaround(version, req.url, req.mime_type, req.qt_filename)
    THEN filename_from_url(req.url, Fallback)
    ELSE _strip_suffix(req.qt_filename)


(***************************************************************************)
(* DownloadManager.                                                        *)
(***************************************************************************)
NoTarget == [kind |-> "none", filename |-> None, force_overwrite |-> FALSE]

\* the rest of handle_download, from the new item on: the target rules in
\* their order. The result: the new item, the pending special target and the
\* rule that decided
\* the target rules with the pending special target left in its slot
resolve_target_KeepTarget(download, self, own, mhtml, use_pdfjs, immediate, fs, ds) ==
    IF mhtml # NoTarget
    THEN [download |-> set_target(download, mhtml, fs, ds), rule |-> "mhtml",
          mhtml |-> mhtml]
    ELSE IF use_pdfjs
    THEN [download |-> set_target(download, PDFJSDownloadTarget, fs, ds),
          rule |-> "pdfjs", mhtml |-> mhtml]
    ELSE IF immediate # None
    THEN [download |-> set_target(download,
                                  FileDownloadTarget(immediate, FALSE), fs, ds),
          rule |-> "directory", mhtml |-> mhtml]
    ELSE IF cancel_for_origin(download, self, own, qtnetwork_downloads).cancelled
    THEN [download |-> cancel_for_origin(download, self, own,
                                         qtnetwork_downloads).download,
          rule |-> "conflict", mhtml |-> mhtml]
    ELSE [download |-> [download EXCEPT !.question = "filename",
                                        !.abortConn = TRUE],
          rule |-> "question", mhtml |-> mhtml]

\* the target rules with the configured directory looked at before the viewer
resolve_target_DirectoryFirst(download, self, own, mhtml, use_pdfjs, immediate, fs, ds) ==
    IF mhtml # NoTarget
    THEN LET d == set_target(download, mhtml, fs, ds)
         IN  [download |-> d, rule |-> "mhtml",
              mhtml |-> IF d.exc = "none" THEN NoTarget ELSE mhtml]
    ELSE IF immediate # None
    THEN [download |-> set_target(download,
                                  FileDownloadTarget(immediate, FALSE), fs, ds),
          rule |-> "directory", mhtml |-> mhtml]
    ELSE IF use_pdfjs
    THEN [download |-> set_target(download, PDFJSDownloadTarget, fs, ds),
          rule |-> "pdfjs", mhtml |-> mhtml]
    ELSE IF cancel_for_origin(download, self, own, qtnetwork_downloads).cancelled
    THEN [download |-> cancel_for_origin(download, self, own,
                                         qtnetwork_downloads).download,
          rule |-> "conflict", mhtml |-> mhtml]
    ELSE [download |-> [download EXCEPT !.question = "filename",
                                        !.abortConn = TRUE],
          rule |-> "question", mhtml |-> mhtml]

\* the target rules without the check for a conflicting download
resolve_target_NoConflictCheck(download, self, own, mhtml, use_pdfjs, immediate, fs, ds) ==
    IF mhtml # NoTarget
    THEN LET d == set_target(download, mhtml, fs, ds)
         IN  [download |-> d, rule |-> "mhtml",
              mhtml |-> IF d.exc = "none" THEN NoTarget ELSE mhtml]
    ELSE IF use_pdfjs
    THEN [download |-> set_target(download, PDFJSDownloadTarget, fs, ds),
          rule |-> "pdfjs", mhtml |-> mhtml]
    ELSE IF immediate # None
    THEN [download |-> set_target(download,
                                  FileDownloadTarget(immediate, FALSE), fs, ds),
          rule |-> "directory", mhtml |-> mhtml]
    ELSE [download |-> [download EXCEPT !.question = "filename",
                                        !.abortConn = TRUE],
          rule |-> "question", mhtml |-> mhtml]

resolve_target(download, self, own, mhtml, use_pdfjs, immediate, fs, ds) ==
    IF mhtml # NoTarget
    THEN LET d == set_target(download, mhtml, fs, ds)
         IN  [download |-> d, rule |-> "mhtml",
              mhtml |-> IF d.exc = "none" THEN NoTarget ELSE mhtml]
    ELSE IF use_pdfjs
    THEN [download |-> set_target(download, PDFJSDownloadTarget, fs, ds),
          rule |-> "pdfjs", mhtml |-> mhtml]
    ELSE IF immediate # None
    THEN [download |-> set_target(download,
                                  FileDownloadTarget(immediate, FALSE), fs, ds),
          rule |-> "directory", mhtml |-> mhtml]
    ELSE IF cancel_for_origin(download, self, own, qtnetwork_downloads).cancelled
    THEN [download |-> cancel_for_origin(download, self, own,
                                         qtnetwork_downloads).download,
          rule |-> "conflict", mhtml |-> mhtml]
    ELSE [download |-> [download EXCEPT !.question = "filename",
                                        !.abortConn = TRUE],
          rule |-> "question", mhtml |-> mhtml]

handle_download(req, version, use_pdfjs, immediate, own, mhtml, fs, ds) ==
    resolve_target(DownloadItem(suggested_filename(version, req), req.origin),
                   Len(own) + 1, own, mhtml, use_pdfjs, immediate, fs, ds)

\* get_mhtml that does not look at the slot
get_mhtml_Overwrite(backend, target, mhtml) ==
    IF backend # "QtWebEngine"
    THEN [mhtml |-> mhtml, exc |-> "AssertionError", save_page |-> FALSE]
    ELSE [mhtml |-> target, exc |-> "none", save_page |-> TRUE]

\* get_mhtml: the new value of _mhtml_target, whether the page is saved, and
\* "AssertionError" when an assertion fails
get_mhtml(backend, target, mhtml) ==
    IF backend # "QtWebEngine" \/ mhtml # NoTarget
    THEN [mhtml |-> mhtml, exc |-> "AssertionError", save_page |-> FALSE]
    ELSE [mhtml |-> target, exc |-> "none", save_page |-> TRUE]

(***************************************************************************)
(* The inputs.                                                             *)
(***************************************************************************)
Url(scheme, path) == [scheme |-> scheme, path |-> path]

Request(qt_filename, origin) ==
    [qt_filename |-> qt_filename, mime_type |-> <<"x", "/", "y">>,
     url |-> Url("https", <<"/", "a", ".", "b">>), origin |-> origin]

\* the same name with and without the engine's suffix, from two pages
Requests ==
    { Request(<<"a", " ", "(", "1", ")", ".", "b">>, "page1"),
      Request(NameAB, "page1"),
      Request(NameAB, "page2") }

Versions == { <<5, 15, 2>>, <<5, 15, 3>> }

(***************************************************************************)
(* Requests for the workaround of QTBUG-90355: data URLs in both spellings *)
(* of the scheme, with and without a slash after the last comma, and the   *)
(* names the engine may make of them: the MIME subtype, the last segment   *)
(* of the path, a name with a suffix, a plain name.  One path ends in the  *)
(* fallback's own name and one MIME type has it as its subtype.  The MIME  *)
(* type of a data URL always holds a slash: the engine gives text/plain to *)
(* a URL without one.                                                      *)
(***************************************************************************)
WorkaroundSchemes == { "data", "DATA", "https" }

WorkaroundPaths ==
    { <<"x", "/", "y", ",", "z">>,
      <<"x", "/", "y", ",", "z", "/", "w">>,
      <<"x", "/", "y", ",", "z", "/">> \o Fallback,
      <<"/", "a", ".", "b">> }

WorkaroundMimeTypes == { <<"x", "/", "y">>, <<"x", "/">> \o Fallback }

WorkaroundNames ==
    { <<"y">>, <<"w">>, Fallback, <<"a", " ", "(", "1", ")", ".", "b">>, NameAB }

WorkaroundVersions == Versions \cup { <<5, 14, 9>>, <<6, 0, 0>> }

WorkaroundRequests ==
    [version : WorkaroundVersions,
     req : [qt_filename : WorkaroundNames, mime_type : WorkaroundMimeTypes,
            url : [scheme : WorkaroundSchemes, path : WorkaroundPaths],
            origin : {"page1"}]]

\* downloads.immediate_download_path(): the download directory, or None
ImmediatePaths == { None, DownloadDir }

\* what one downloadRequested event meets: the request, the engine's
\* version, pdfjs.should_use_pdfjs and immediate_download_path
Inputs ==
    [req : Requests, version : Versions, use_pdfjs : BOOLEAN,
     immediate : ImmediatePaths]

MhtmlTargets ==
    { FileDownloadTarget(DownloadDir \o <<NameOld>>, TRUE),
      FileDownloadTarget(DownloadDir \o <<NameOld>>, FALSE) }

\* the inputs of the runs with several downloads: requests of one page for
\* one name, no viewer, a special target that overwrites
SamePageInputs ==
    { in \in Inputs : /\ in.req.origin = "page1"
                      /\ in.version = FixedVersion
                      /\ ~in.use_pdfjs }

OverwritingTargets == { t \in MhtmlTargets : t.force_overwrite }

(***************************************************************************)
(* File names for _strip_suffix: a stem and up to MaxPieces pieces, among  *)
(* them the engine's two suffixes, with and without the space, a timestamp *)
(* with another character for its dot, a suffix cut short and an           *)
(* extension.                                                              *)
(***************************************************************************)
NumSuffix(n) == <<" ", "(", n, ")">>

IsoSuffix(dot) ==
    << " ", "-", " ", "2", "0", "2", "1", "-", "0", "5", "-", "0", "1", "T",
       "1", "0", ":", "0", "0", ":", "0", "0", dot, "1", "2", "3", "Z" >>

Pieces ==
    { NumSuffix("1"), NumSuffix("2"), <<"(", "3", ")">>, <<" ", "(", "4">>,
      IsoSuffix("."), IsoSuffix("x"), <<".", "b">> }

RECURSIVE Pieced(_)
Pieced(k) ==
    IF k = 0 THEN { <<>> }
    ELSE Pieced(k - 1) \cup { n \o p : n \in Pieced(k - 1), p \in Pieces }

Filenames == { stem \o n : stem \in { <<>>, <<"a">> }, n \in Pieced(MaxPieces) }

(***************************************************************************)
(* The file system after a handler: its trace holds what it did there.     *)
(***************************************************************************)
FsArgs(log, name) ==
    { log[k].arg : k \in {m \in 1..Len(log) : log[m].k = "fs" /\ log[m].n = name} }

FilesAfter(log) == (files \ FsArgs(log, "delete")) \cup FsArgs(log, "write")
DirsAfter(log) == dirs \cup FsArgs(log, "makedirs")

Stored(it) == [it EXCEPT !.log = <<>>, !.exc = "none"]

NoInput == <<>>

\* the last operation: its name, the item it ran on (0: none), what it was
\* given (handle_download, get_mhtml), the rule that decided the target
\* (handle_download), the exception it raised and its trace
Operation(name, id, input, rule, it) ==
    [name |-> name, id |-> id, input |-> input, rule |-> rule,
     exc |-> it.exc, log |-> it.log]

\* the handler has run on item i and left it as it
Commit(name, i, it) ==
    /\ downloads' = [downloads EXCEPT ![i] = Stored(it)]
    /\ files' = FilesAfter(it.log)
    /\ dirs' = DirsAfter(it.log)
    /\ op' = Operation(name, i, NoInput, "none", it)

Alive(i) == i \in Ids /\ ~downloads[i].destroyed

\* an event loop that holds the engine's events back while the question of
\* another download is outstanding
Dispatchable_AfterAnswers(i) ==
    /\ Alive(i)
    /\ \A j \in Ids \ {i} : downloads[j].question = "none"

\* message.global_bridge.ask(question, blocking=True): the wait for the
\* answer serves the event queue, so the engine's events for item i are
\* dispatched whatever questions are outstanding
Dispatchable(i) == Alive(i)

(***************************************************************************)
(* The operations.                                                         *)
(***************************************************************************)
Init ==
    /\ downloads = <<>>
    /\ _mhtml_target = NoTarget
    /\ reservations = 0
    /\ retries = 0
    /\ files = { DownloadDir \o <<NameOld>> }
    /\ dirs = { DownloadDir, TempDir }
    /\ op = [name |-> "init", id |-> 0, input |-> NoInput, rule |-> "none",
             exc |-> "none", log |-> <<>>]

\* the profile's downloadRequested signal, while fewer than n were raised
HandleDownload(n, inputs) ==
    /\ Len(downloads) < n
    /\ \E in \in inputs :
          IF workaround_raises(in.version, in.req.url, in.req.mime_type)
          THEN /\ op' = [name |-> "handle_download", id |-> 0, input |-> in,
                         rule |-> "none", exc |-> "IndexError", log |-> <<>>]
               /\ UNCHANGED <<downloads, _mhtml_target, files, dirs>>
          ELSE LET r == handle_download(in.req, in.version, in.use_pdfjs,
                                        in.immediate, downloads,
                                        _mhtml_target, files, dirs)
               IN  /\ downloads' = Append(downloads, Stored(r.download))
                   /\ _mhtml_target' = r.mhtml
                   /\ files' = FilesAfter(r.download.log)
                   /\ dirs' = DirsAfter(r.download.log)
                   /\ op' = Operation("handle_download", Len(downloads) + 1,
                                      in, r.rule, r.download)
    /\ UNCHANGED <<reservations, retries>>

SavePage ==
    [k |-> "call", n |-> "save_page", arg |-> None, done |-> FALSE,
     successful |-> FALSE, qstate |-> "none"]

GetMhtml(targets) ==
    /\ reservations < MaxReservations
    /\ \E backend \in {"QtWebEngine", "QtWebKit"}, target \in targets :
          LET r == get_mhtml(backend, target, _mhtml_target)
          IN  /\ _mhtml_target' = r.mhtml
              /\ reservations' = IF r.exc = "none" THEN reservations + 1
                                 ELSE reservations
              /\ op' = [name |-> "get_mhtml", id |-> 0,
                        input |-> [backend |-> backend, target |-> target],
                        rule |-> "none", exc |-> r.exc,
                        log |-> IF r.save_page THEN <<SavePage>> ELSE <<>>]
    /\ UNCHANGED <<downloads, retries, files, dirs>>

\* the filename question is answered: question.answered -> set_target
AnswerFilename(i, paths) ==
    /\ Alive(i)
    /\ downloads[i].question = "filename"
    /\ \E filename \in paths :
          LET it == set_target([downloads[i] EXCEPT !.question = "none",
                                                   !.abortConn = FALSE],
                               FileDownloadTarget(filename, FALSE), files, dirs)
          IN  /\ downloads' = [downloads EXCEPT ![i] = Stored(it)]
              /\ files' = FilesAfter(it.log)
              /\ dirs' = DirsAfter(it.log)
              /\ op' = Operation("answer_filename", i, filename, "none", it)
    /\ UNCHANGED <<_mhtml_target, reservations, retries>>

\* the filename question is cancelled: question.cancelled -> cancel
CancelFilename(i) ==
    /\ Alive(i)
    /\ downloads[i].question = "filename"
    /\ Commit("cancel_filename", i,
              cancel([downloads[i] EXCEPT !.question = "none",
                                          !.abortConn = FALSE], FALSE))
    /\ UNCHANGED <<_mhtml_target, reservations, retries>>

\* a confirmation question is answered yes
AnswerYes(i) ==
    /\ Alive(i)
    /\ downloads[i].question \in {"parent", "overwrite"}
    /\ Commit("answer_yes", i, yes_action(downloads[i], files))
    /\ UNCHANGED <<_mhtml_target, reservations, retries>>

\* a confirmation question is answered no, or cancelled
AnswerNo(i) ==
    /\ Alive(i)
    /\ downloads[i].question \in {"parent", "overwrite"}
    /\ Commit("answer_no", i,
              no_action([downloads[i] EXCEPT !.question = "none",
                                             !.abortConn = FALSE]))
    /\ UNCHANGED <<_mhtml_target, reservations, retries>>

\* the user cancels the download
UserCancel(i) ==
    /\ Alive(i)
    /\ Commit("cancel", i, cancel(downloads[i], TRUE))
    /\ UNCHANGED <<_mhtml_target, reservations, retries>>

\* the user retries the download
Retry(i) ==
    /\ Alive(i)
    /\ retries < MaxRetries
    /\ Commit("retry", i, retry(downloads[i]))
    /\ retries' = retries + 1
    /\ UNCHANGED <<_mhtml_target, reservations>>

\* a caller sets a target on an item that is past its own target resolution
SetTargetAgain(i) ==
    /\ Alive(i)
    /\ downloads[i].question = "none"
    /\ \E filename \in AnswerPaths :
          Commit("set_target", i,
                 set_target(downloads[i], FileDownloadTarget(filename, FALSE),
                            files, dirs))
    /\ UNCHANGED <<_mhtml_target, reservations, retries>>

\* the transitions the engine makes by itself
EngineMoves(it, state) ==
    \/ /\ it.qstate = DownloadInProgress
       /\ state \in {DownloadCompleted, DownloadInterrupted}
    \/ /\ it.qstate = DownloadInProgress
       /\ it.pending = "cancel"
       /\ state = DownloadCancelled
    \/ /\ it.qstate = DownloadInterrupted
       /\ it.pending = "resume"
       /\ state = DownloadInProgress

\* the engine changes the state of a transfer and emits stateChanged; a
\* completed transfer has written its file
StateChanged(i) ==
    /\ Dispatchable(i)
    /\ \E state \in DownloadStates :
          /\ EngineMoves(downloads[i], state)
          /\ Commit("state_changed", i,
                    SetDownloadState(
                        IF state = DownloadCompleted
                        THEN Log(downloads[i], "fs", "write",
                                 downloads[i].filename)
                        ELSE downloads[i],
                        state))
    /\ UNCHANGED <<_mhtml_target, reservations, retries>>

\* QObject.destroyed of the wrapper: the slots connected to the signal run;
\* nothing of the wrapper is left but the count of the handle's releases,
\* and what the engine was still about to do
destroy(it) ==
    LET e == [DownloadItem(None, "none") EXCEPT
                 !.destroyed = TRUE, !.done = TRUE, !.stateConn = FALSE,
                 !.progressConn = FALSE, !.destroyedConn = FALSE,
                 !.released = it.released, !.pending = it.pending,
                 !.accepts = it.accepts]
    IN  IF it.destroyedConn
        THEN [Log(e, "call", "deleteLater", None) EXCEPT !.released = @ + 1]
        ELSE e

\* the wrapper is deleted: it was removed from the manager, or the
\* application exits
Destroy(i) ==
    /\ Alive(i)
    /\ downloads[i].question = "none"
    /\ Commit("destroy", i, destroy(downloads[i]))
    /\ UNCHANGED <<_mhtml_target, reservations, retries>>

\* a caller disposes of the download after a failure (_die)
Die(i) ==
    /\ Alive(i)
    /\ Commit("die", i, _die(downloads[i]))
    /\ UNCHANGED <<_mhtml_target, reservations, retries>>

\* the engine reports the progress of a running transfer; the slot runs
\* while it is connected
DownloadProgress(i) ==
    /\ Dispatchable(i)
    /\ downloads[i].qstate = DownloadInProgress
    /\ \E received \in 1..MaxReceived :
          /\ downloads' =
                [downloads EXCEPT ![i] =
                    IF @.progressConn THEN on_download_progress(@, received)
                    ELSE @]
          /\ op' = [name |-> "progress", id |-> i, input |-> received,
                    rule |-> "none", exc |-> "none", log |-> <<>>]
    /\ UNCHANGED <<_mhtml_target, reservations, retries, files, dirs>>

\* a state outside QWebEngineDownloadRequest.DownloadState
DownloadUnknown == "DownloadUnknown"

\* stateChanged is delivered with a state that ends no transfer, or with an
\* unknown one
StateEvent(i) ==
    /\ Alive(i)
    /\ downloads[i].stateConn
    /\ \E state \in {DownloadRequested, DownloadInProgress, DownloadUnknown} :
          LET it == _on_state_changed(downloads[i], state)
          IN  /\ downloads' = [downloads EXCEPT ![i] = Stored(it)]
              /\ op' = Operation("state_event", i, state, "none", it)
    /\ UNCHANGED <<_mhtml_target, reservations, retries, files, dirs>>

(***************************************************************************)
(* The backend problem checker (misc/backendproblem.py).  A handler leaves *)
(* the trace of what it showed, saved and started, and how it ended: it    *)
(* returned, or sys.exit raised SystemExit with a code.                    *)
(***************************************************************************)
Backends == { "QtWebKit", "QtWebEngine" }

_other_backend(backend) ==
    IF backend = "QtWebKit" THEN "QtWebEngine" ELSE "QtWebKit"

\* _BackendImports: no error is None
NoError == ""

\* what the imports of a backend's modules meet
ImportResults == { "ok", "fails", "legacy" }

\* a legacy QtWebKit imports, and is an error all the same; for QtWebEngine
\* there is no such case
_try_import_backends(webkit, webengine) ==
    [webkit_error |->
        IF webkit = "fails" THEN "ImportError"
        ELSE IF webkit = "legacy" THEN "Unsupported legacy QtWebKit found"
        ELSE NoError,
     webengine_error |-> IF webengine = "ok" THEN NoError ELSE "ImportError"]

Returned == [exc |-> "none", code |-> "none", log |-> <<>>]

\* sys.exit(usertypes.Exit.err_init) after what the trace tells
Exited(log) == [exc |-> "SystemExit", code |-> "err_init", log |-> log]

\* what the user does with the dialog: the Quit button, closing it, the
\* button that forces the other backend
DialogAnswers == { "quit", "close", "force_other" }

\* _Dialog.exec(): the status, and the setting _change_setting has stored
DialogStatus(backend, answer) ==
    IF answer = "quit" THEN "quit"
    ELSE IF answer = "close" THEN "Rejected"
    ELSE IF _other_backend(backend) = "QtWebKit" THEN "restart_webkit"
    ELSE "restart_webengine"

\* _show_dialog that restarts before it saves
_show_dialog_RestartFirst(no_err_windows, backend, answer) ==
    LET status == DialogStatus(backend, answer)
        shown == IF answer = "force_other"
                 THEN <<"dialog", "config.set_obj">>
                 ELSE <<"dialog">>
    IN  IF no_err_windows THEN Exited(<<"log.error", "exit">>)
        ELSE IF status \in {"quit", "Rejected"}
        THEN Exited(shown \o <<"save_all", "exit">>)
        ELSE Exited(shown \o <<"restart", "save_all", "exit">>)

_show_dialog(no_err_windows, backend, answer) ==
    LET status == DialogStatus(backend, answer)
        shown == IF answer = "force_other"
                 THEN <<"dialog", "config.set_obj">>
                 ELSE <<"dialog">>
    IN  IF no_err_windows THEN Exited(<<"log.error", "exit">>)
        ELSE IF status \in {"quit", "Rejected"}
        THEN Exited(shown \o <<"save_all", "exit">>)
        ELSE Exited(shown \o <<"save_all", "restart", "exit">>)

_check_backend_modules(backend, webkit, webengine, no_err_windows, answer) ==
    LET imports == _try_import_backends(webkit, webengine)
    IN  IF imports.webkit_error = NoError /\ imports.webengine_error = NoError
        THEN Returned
        ELSE IF imports.webkit_error # NoError
                  /\ imports.webengine_error # NoError
        THEN Exited(<<"msgbox", "exit">>)
        ELSE IF backend = "QtWebKit"
        THEN IF imports.webkit_error = NoError THEN Returned
             ELSE _show_dialog(no_err_windows, "QtWebKit", answer)
        ELSE IF imports.webengine_error = NoError THEN Returned
             ELSE _show_dialog(no_err_windows, "QtWebEngine", answer)

\* the oldest QtWebEngine that is supported
MinVersion == <<5, 15, 2>>

_check_webengine_version(version) ==
    IF ~VersionAtLeast(version, MinVersion)
    THEN Exited(<<"msgbox", "exit">>)
    ELSE Returned

_handle_ssl_support(supportsSsl, fatal) ==
    IF supportsSsl THEN Returned
    ELSE IF fatal THEN Exited(<<"msgbox", "exit">>)
    ELSE [Returned EXCEPT !.log = <<"log.warning">>]

\* what the checker meets at the start of the application
CheckerInputs ==
    [backend : Backends, webkit : ImportResults,
     webengine : ImportResults \ {"legacy"}, no_err_windows : BOOLEAN,
     version : { <<5, 15, 1>>, MinVersion, <<6, 3, 0>> },
     supportsSsl : BOOLEAN]

\* check() is about to run
CheckerInit ==
    /\ downloads = <<>>
    /\ _mhtml_target = NoTarget
    /\ reservations = 0
    /\ retries = 0
    /\ files = { DownloadDir \o <<NameOld>> }
    /\ dirs = { DownloadDir, TempDir }
    /\ \E in \in CheckerInputs :
          op = [name |-> "check", id |-> 0, input |-> in, rule |-> "none",
                exc |-> "none", log |-> <<>>, result |-> "none"]

\* the step of check() that has ended as r
Checked(name, r) ==
    /\ op' = [op EXCEPT !.name = name, !.exc = r.exc, !.log = r.log,
                        !.result = r.code]
    /\ UNCHANGED <<downloads, _mhtml_target, reservations, retries, files,
                   dirs>>

\* check(): _check_backend_modules
CheckBackendModules ==
    /\ op.name = "check"
    /\ \E answer \in DialogAnswers :
          Checked("_check_backend_modules",
                  _check_backend_modules(op.input.backend, op.input.webkit,
                                         op.input.webengine,
                                         op.input.no_err_windows, answer))

\* check(): _check_webengine_version, for QtWebEngine, after the modules
CheckWebengineVersion ==
    /\ op.name = "_check_backend_modules"
    /\ op.exc = "none"
    /\ op.input.backend = "QtWebEngine"
    /\ Checked("_check_webengine_version",
               _check_webengine_version(op.input.version))

\* check(): _handle_ssl_support, fatal for QtWebKit
HandleSslSupport ==
    /\ op.exc = "none"
    /\ \/ op.name = "_check_webengine_version"
       \/ op.name = "_check_backend_modules" /\ op.input.backend = "QtWebKit"
    /\ Checked("_handle_ssl_support",
               _handle_ssl_support(op.input.supportsSsl,
                                   op.input.backend = "QtWebKit"))

(***************************************************************************)
(* The conflict lookup on its own: the downloads of both managers, done or *)
(* not, for two names and two pages.                                       *)
(***************************************************************************)
RECURSIVE SeqsUpTo(_, _)
SeqsUpTo(S, n) ==
    IF n = 0 THEN { <<>> }
    ELSE SeqsUpTo(S, n - 1)
           \cup { Append(s, x) : s \in SeqsUpTo(S, n - 1), x \in S }

\* the downloads of the webengine manager
OwnDownloads ==
    { [DownloadItem(name, origin) EXCEPT !.done = done] :
        name \in {NameAB, NameOld}, origin \in Origins, done \in BOOLEAN }

\* the downloads of the qtnetwork download manager
SiblingDownloads ==
    [basename : {NameAB, NameOld}, origin : Origins, done : BOOLEAN]

LookupInit ==
    /\ downloads \in SeqsUpTo(OwnDownloads, MaxDownloads) \ { <<>> }
    /\ _mhtml_target = NoTarget
    /\ reservations = 0
    /\ retries = 0
    /\ files = { DownloadDir \o <<NameOld>> }
    /\ dirs = { DownloadDir, TempDir }
    /\ \E sibling \in SeqsUpTo(SiblingDownloads, MaxSiblings) :
          op = [name |-> "managers", id |-> 0, input |-> sibling,
                rule |-> "none", exc |-> "none", log |-> <<>>,
                result |-> NoDownload]

\* item i of the webengine manager looks for a conflicting download
GetConflictingDownload(i) ==
    /\ Alive(i)
    /\ op.name = "managers"
    /\ op' = [op EXCEPT
                 !.name = "_get_conflicting_download",
                 !.id = i,
                 !.result = _get_conflicting_download(downloads[i], i,
                                                      downloads, op.input)]
    /\ UNCHANGED <<downloads, _mhtml_target, reservations, retries, files,
                   dirs>>

\* the engine's stateChanged signal with any state, whatever the state
\* before: the handler is bound to no order of the events
EngineEvent(i) ==
    /\ Alive(i)
    /\ \E state \in DownloadStates :
          LET it == SetDownloadState(
                        IF state = DownloadCompleted
                             /\ downloads[i].filename # None
                        THEN Log(downloads[i], "fs", "write",
                                 downloads[i].filename)
                        ELSE downloads[i],
                        state)
          IN  /\ downloads' = [downloads EXCEPT ![i] = Stored(it)]
              /\ files' = FilesAfter(it.log)
              /\ dirs' = DirsAfter(it.log)
              /\ op' = Operation("engine_event", i, state, "none", it)
    /\ UNCHANGED <<_mhtml_target, reservations, retries>>

\* a file name the engine suggests
TextInit ==
    /\ downloads = <<>>
    /\ _mhtml_target = NoTarget
    /\ reservations = 0
    /\ retries = 0
    /\ files = { DownloadDir \o <<NameOld>> }
    /\ dirs = { DownloadDir, TempDir }
    /\ \/ \E filename \in Filenames :
             op = [name |-> "name", id |-> 0, input |-> filename,
                   rule |-> "none", exc |-> "none", log |-> <<>>,
                   result |-> filename]
       \/ \E in \in WorkaroundRequests :
             op = [name |-> "request", id |-> 0, input |-> in,
                   rule |-> "none", exc |-> "none", log |-> <<>>,
                   result |-> None]

\* _strip_suffix is applied to the name, and then to what it returned
StripSuffix ==
    /\ op.name \in {"name", "_strip_suffix"}
    /\ op' = [op EXCEPT !.name = "_strip_suffix", !.input = op.result,
                        !.result = _strip_suffix(op.result)]
    /\ UNCHANGED <<downloads, _mhtml_target, reservations, retries, files,
                   dirs>>

\* handle_download up to the suggested name, l.269-290
SuggestFilename ==
    /\ op.name = "request"
    /\ LET in == op.input
           raises == workaround_raises(in.version, in.req.url, in.req.mime_type)
       IN  op' = [op EXCEPT
                    !.name = "suggested_filename",
                    !.exc = IF raises THEN "IndexError" ELSE "none",
                    !.rule = IF raises THEN "none"
                             ELSE IF needs_workaround(in.version, in.req.url,
                                        in.req.mime_type, in.req.qt_filename)
                             THEN "workaround" ELSE "strip",
                    !.result = IF raises THEN None
                               ELSE suggested_filename(in.version, in.req)]
    /\ UNCHANGED <<downloads, _mhtml_target, reservations, retries, files,
                   dirs>>

\* several requests of one page for one name, and what follows them up to
\* the end of each download (no retry)
Next ==
    \/ HandleDownload(MaxDownloads, SamePageInputs)
    \/ GetMhtml(OverwritingTargets)
    \/ \E i \in Ids :
          \/ AnswerFilename(i, {DownloadDir \o <<NameAB>>})
          \/ CancelFilename(i)
          \/ AnswerYes(i)
          \/ AnswerNo(i)
          \/ UserCancel(i)
          \/ StateChanged(i)
          \/ Destroy(i)

Spec == Init /\ [][Next]_vars

\* the whole life of one download
ItemNext ==
    \/ HandleDownload(1, Inputs)
    \/ GetMhtml(MhtmlTargets)
    \/ \E i \in Ids :
          \/ AnswerFilename(i, AnswerPaths)
          \/ CancelFilename(i)
          \/ AnswerYes(i)
          \/ AnswerNo(i)
          \/ UserCancel(i)
          \/ Retry(i)
          \/ SetTargetAgain(i)
          \/ StateChanged(i)
          \/ Destroy(i)

ItemSpec == Init /\ [][ItemNext]_vars

\* one download with the events of the engine and the disposal by a caller
LifeNext ==
    \/ HandleDownload(1, SamePageInputs)
    \/ \E i \in Ids :
          \/ AnswerFilename(i, AnswerPaths)
          \/ CancelFilename(i)
          \/ AnswerYes(i)
          \/ AnswerNo(i)
          \/ UserCancel(i)
          \/ Retry(i)
          \/ StateChanged(i)
          \/ StateEvent(i)
          \/ DownloadProgress(i)
          \/ Die(i)
          \/ Destroy(i)

LifeSpec == Init /\ [][LifeNext]_vars

\* several downloads and their questions: the engine's events are handled
\* in the end, the questions need not ever be answered
QueueNext ==
    \/ HandleDownload(MaxDownloads, SamePageInputs)
    \/ \E i \in Ids :
          \/ AnswerFilename(i, AnswerPaths)
          \/ CancelFilename(i)
          \/ AnswerYes(i)
          \/ AnswerNo(i)
          \/ StateChanged(i)
          \/ DownloadProgress(i)

QueueSpec ==
    /\ Init
    /\ [][QueueNext]_vars
    /\ \A i \in 1..MaxDownloads :
          WF_vars(StateChanged(i))

\* the suggested names and what _strip_suffix makes of them
TextNext == StripSuffix \/ SuggestFilename

TextSpec == TextInit /\ [][TextNext]_vars

\* one download under an engine that reports its states in any order
EventNext ==
    \/ HandleDownload(1, SamePageInputs)
    \/ \E i \in Ids :
          \/ AnswerFilename(i, AnswerPaths)
          \/ CancelFilename(i)
          \/ AnswerYes(i)
          \/ AnswerNo(i)
          \/ UserCancel(i)
          \/ Retry(i)
          \/ EngineEvent(i)
          \/ Die(i)
          \/ Destroy(i)

EventSpec == Init /\ [][EventNext]_vars

\* check() of the backend problem checker, up to the SSL support
CheckerNext ==
    \/ CheckBackendModules
    \/ CheckWebengineVersion
    \/ HandleSslSupport

CheckerSpec == CheckerInit /\ [][CheckerNext]_vars

\* the conflict lookup for every item of the manager
LookupNext == \E i \in Ids : GetConflictingDownload(i)

LookupSpec == LookupInit /\ [][LookupNext]_vars

TypeOK ==
    /\ \A i \in Ids : downloads[i].qstate \in DownloadStates
    /\ retries \in 0..MaxRetries

(***************************************************************************)
(* The claims.                                                             *)
(***************************************************************************)
\* the signals of the item that the last operation emitted
Signals(log) ==
    { log[k].n : k \in {m \in 1..Len(log) : log[m].k = "emit"} }

\* what an observer sees of an item: the engine's state, the flags
View(it) == <<it.qstate, it.done, it.successful>>

\* C1: retry() calls the engine's resume() if and only if the engine's state
\* is Interrupted; in every other state it logs a warning, calls nothing and
\* leaves the item, the engine's state included, as it was.
C1_RetryOnlyInterrupted ==
    [][op'.name = "retry" =>
         LET was == downloads[op'.id]
             now == downloads'[op'.id]
         IN  /\ Called(op'.log, "resume") <=> was.qstate = DownloadInterrupted
             /\ was.qstate = DownloadInterrupted => now.pending = "resume"
             /\ was.qstate # DownloadInterrupted =>
                   /\ now = was
                   /\ op'.log = <<Entry(was, "log", "warning", None)>>]_vars

\* retry() was refused on a completed download
C1_Witness ==
    /\ op.name = "retry"
    /\ ~Called(op.log, "resume")
    /\ downloads[op.id].qstate = DownloadCompleted

Active(i) == Alive(i) /\ ~downloads[i].done

\* the last operation was handle_download for a request whose suggested
\* filename and origin are those of an item that was active then
SecondRequest ==
    /\ op'.name = "handle_download"
    /\ op'.exc = "none"
    /\ \E j \in Ids :
          /\ Active(j)
          /\ downloads[j].basename =
                suggested_filename(op'.input.version, op'.input.req)
          /\ downloads[j].origin = op'.input.req.origin

\* the new item was dropped, and the other items are as they were
Dropped ==
    LET new == downloads'[op'.id]
    IN  /\ new.done
        /\ new.qstate = DownloadCancelled
        /\ new.question = "none"
        /\ new.filename = None
        /\ ~Called(op'.log, "accept")
        /\ \A j \in Ids : downloads'[j] = downloads[j]

\* C3, as claimed: a request for the filename and origin of an active item
\* is dropped, on every path of the target resolution.
C3_SecondAlwaysDropped == [][SecondRequest => Dropped]_vars

\* C3, amended: a request for the filename and origin of an active item is
\* dropped when no special target is pending, the content goes to no viewer
\* and no download directory is configured; on those three paths the
\* conflict is not looked for.
C3_SecondDroppedAtConflictCheck ==
    [][/\ SecondRequest
       /\ _mhtml_target = NoTarget
       /\ ~op'.input.use_pdfjs
       /\ op'.input.immediate = None
       => Dropped /\ op'.rule = "conflict"]_vars

\* the second request came while the first waited for its filename, and was
\* dropped
C3_Witness ==
    /\ op.name = "handle_download"
    /\ op.rule = "conflict"
    /\ op.id = 2
    /\ downloads[1].question = "filename"
    /\ Active(1)
    /\ downloads[2].done
    /\ Called(op.log, "cancel")

\* C4: the engine's handle of an item is released (deleteLater) at most
\* once, and exactly once when the item has been destroyed, whatever was
\* going on when it was destroyed.
C4_ReleasedExactlyOnce ==
    \A i \in Ids :
       /\ downloads[i].released <= 1
       /\ downloads[i].destroyed <=> downloads[i].released = 1

\* the item was destroyed while the engine was about to cancel the transfer
\* for the user
C4_Witness ==
    /\ op.name = "destroy"
    /\ Called(op.log, "deleteLater")
    /\ downloads[op.id].destroyed
    /\ downloads[op.id].released = 1
    /\ downloads[op.id].pending = "cancel"

\* C5: setting a target on an item whose engine state is not Requested
\* raises ValueError, leaves the filename and calls nothing; a target set on
\* an item that is past its target resolution always fails so.
C5_TargetOnlyWhenRequested ==
    [][op'.name \in {"set_target", "answer_filename"} =>
         LET was == downloads[op'.id]
             now == downloads'[op'.id]
         IN  /\ was.qstate # DownloadRequested =>
                   /\ op'.exc = "ValueError"
                   /\ now.filename = was.filename
                   /\ op'.log = <<>>
             /\ op'.name = "set_target" =>
                   /\ op'.exc = "ValueError"
                   /\ now = was]_vars

\* a second target was refused on a download that was accepted and runs
C5_Witness ==
    /\ op.name = "set_target"
    /\ op.exc = "ValueError"
    /\ downloads[op.id].qstate = DownloadInProgress
    /\ downloads[op.id].filename # None

\* C6: a confirmation question answered no, or cancelled, cancels the item
\* without removing data: the engine is told to cancel and not to accept, no
\* file is deleted, and the item is Cancelled, done and not successful.
C6_DeclineCancelsKeepingData ==
    [][op'.name = "answer_no" =>
         LET now == downloads'[op'.id]
         IN  /\ op'.exc = "none"
             /\ Called(op'.log, "cancel")
             /\ ~Called(op'.log, "accept")
             /\ FsArgs(op'.log, "delete") = {}
             /\ files' = files
             /\ now.qstate = DownloadCancelled
             /\ now.done
             /\ ~now.successful
             /\ now.question = "none"]_vars

\* the overwrite question was declined and the file is still there
C6_Witness ==
    /\ op.name = "answer_no"
    /\ downloads[op.id].filename \in files
    /\ downloads[op.id].qstate = DownloadCancelled
    /\ downloads[op.id].done

\* C7: no item is done while one of its questions is outstanding, and no
\* operation on an item that is done calls the engine's accept().
C7_NoQuestionOnceDone ==
    /\ [](\A i \in Ids : downloads[i].done => downloads[i].question = "none")
    /\ [][op'.name # "handle_download" /\ Called(op'.log, "accept")
             => ~downloads[op'.id].done]_vars

\* the user cancelled the download while a confirmation was outstanding,
\* and the question was aborted
C7_Witness ==
    /\ op.name = "cancel"
    /\ \E k \in 1..Len(op.log) :
          op.log[k].k = "question" /\ op.log[k].n = "abort"
    /\ Emitted(op.log, "cancelled")
    /\ downloads[op.id].done
    /\ downloads[op.id].filename # None
    /\ downloads[op.id].question = "none"

C9_OneSpecialTargetPending ==
    [][op'.name = "get_mhtml" /\ _mhtml_target # NoTarget =>
         /\ op'.exc = "AssertionError"
         /\ _mhtml_target' = _mhtml_target
         /\ ~Called(op'.log, "save_page")]_vars

\* another target was refused while one was pending, and the pending one
\* is still in the slot
C9_Witness ==
    /\ op.name = "get_mhtml"
    /\ op.exc = "AssertionError"
    /\ op.input.backend = "QtWebEngine"
    /\ _mhtml_target # NoTarget
    /\ op.input.target # _mhtml_target

\* the rule that applies first to a request, in the order of the rules
FirstRule(in) ==
    LET name == suggested_filename(in.version, in.req)
        same(d) == ~d.done /\ d.basename = name /\ d.origin = in.req.origin
    IN  IF _mhtml_target # NoTarget THEN "mhtml"
        ELSE IF in.use_pdfjs THEN "pdfjs"
        ELSE IF in.immediate # None THEN "directory"
        ELSE IF \/ \E j \in Ids : same(downloads[j])
                \/ \E k \in 1..Len(qtnetwork_downloads) :
                      same(qtnetwork_downloads[k])
        THEN "conflict"
        ELSE "question"

\* C10: handle_download decides by the first rule that applies, in the order
\* special target, viewer, configured directory, conflict, filename
\* question; the user is asked for a filename only when none of the first
\* four applies, and the request gets one target at most.
C10_FirstRuleDecides ==
    [][op'.name = "handle_download" /\ op'.exc = "none" =>
         LET new == downloads'[op'.id]
             in == op'.input
             name == suggested_filename(in.version, in.req)
             accepts == {k \in 1..Len(op'.log) :
                            op'.log[k].k = "call" /\ op'.log[k].n = "accept"}
         IN  /\ op'.rule = FirstRule(in)
             /\ new.question = "filename" <=> FirstRule(in) = "question"
             /\ Cardinality(accepts) <= 1
             /\ CASE op'.rule = "mhtml" ->
                       new.filename = _mhtml_target.filename
                  [] op'.rule = "pdfjs" -> new.filename = TempFile(name)
                  [] op'.rule = "directory" ->
                       new.filename = in.immediate \o <<name>>
                  [] OTHER -> new.filename = None /\ accepts = {}]_vars

\* the viewer decided although a download directory is configured
C10_Witness ==
    /\ op.name = "handle_download"
    /\ op.rule = "pdfjs"
    /\ op.input.use_pdfjs
    /\ op.input.immediate # None
    /\ downloads[op.id].filename = TempFile(downloads[op.id].basename)
\* C11: a cancel of an item whose engine state is Completed or Cancelled
\* fails with an assertion, calls no engine cancel() and leaves the item as
\* it was; in every other state the engine's cancel() is called and nothing
\* is raised.
C11_CancelOnlyBeforeEnd ==
    [][op'.name \in {"cancel", "cancel_filename", "answer_no"} =>
         LET was == downloads[op'.id]
             now == downloads'[op'.id]
         IN  IF was.qstate \in {DownloadCompleted, DownloadCancelled}
             THEN /\ op'.exc = "AssertionError"
                  /\ ~Called(op'.log, "cancel")
                  /\ now = was
             ELSE /\ op'.exc = "none"
                  /\ Called(op'.log, "cancel")]_vars

\* a completed download was cancelled, and the cancel was refused
C11_Witness ==
    /\ op.name = "cancel"
    /\ op.exc = "AssertionError"
    /\ downloads[op.id].qstate = DownloadCompleted
    /\ downloads[op.id].successful
\* the places in the trace where the item was detached from the engine's
\* progress signals
Disconnects(log) ==
    {k \in 1..Len(log) : log[k].k = "call" /\ log[k].n = "disconnect"}

\* C12: a disposal detaches the item from the engine's progress signals and
\* tells the engine to cancel if and only if the engine's state at that
\* moment is not Interrupted; a progress event after the disposal leaves
\* the item's statistics as they are.
C12_DisposalDetachesAndCancels ==
    [][op'.id \in Ids =>
         LET was == downloads[op'.id]
             now == downloads'[op'.id]
         IN  /\ ~was.dead /\ now.dead =>
                   /\ ~now.progressConn
                   /\ Cardinality(Disconnects(op'.log)) = 1
                   /\ \A k \in Disconnects(op'.log) :
                         Called(op'.log, "cancel")
                            <=> op'.log[k].qstate # DownloadInterrupted
             /\ was.dead /\ op'.name = "progress" =>
                   /\ now.stats = was.stats
                   /\ ~now.progressConn]_vars

\* the item was disposed of while the transfer ran, the engine was told to
\* cancel, and the progress it reported after that did not arrive
C12_Witness ==
    /\ op.name = "progress"
    /\ op.input = 1
    /\ downloads[op.id].dead
    /\ downloads[op.id].pending = "cancel"
    /\ downloads[op.id].stats = 0
\* the calls of the engine's cancel() in a trace
Cancels(log) ==
    {k \in 1..Len(log) : log[k].k = "call" /\ log[k].n = "cancel"}

Emissions(log, signal) ==
    {k \in 1..Len(log) : log[k].k = "emit" /\ log[k].n = signal}

\* the item an operation ran on, before it: for handle_download the new item
Before(o) ==
    IF o.name = "handle_download"
    THEN DownloadItem(suggested_filename(o.input.version, o.input.req),
                      o.input.req.origin)
    ELSE downloads[o.id]

\* the operations on an item that is there afterwards
ItemStep(o) == o.id > 0 /\ o.exc # "IndexError" /\ o.name # "destroy"

EndStates == {DownloadCompleted, DownloadCancelled, DownloadInterrupted}

C15_FlagsSetBeforeNotification ==
    [][\A k \in 1..Len(op'.log) :
          LET e == op'.log[k]
          IN  e.k = "emit" =>
                /\ e.n = "finished" =>
                      e.qstate = DownloadCompleted /\ e.successful /\ e.done
                /\ e.n = "cancelled" =>
                      e.qstate = DownloadCancelled /\ ~e.successful /\ e.done
                /\ e.n = "error" /\ e.qstate = DownloadInterrupted =>
                      ~e.successful /\ e.done]_vars

\* the transfer completed, and finished was emitted with both flags set
C15_Witness ==
    /\ op.name = "state_changed"
    /\ downloads[op.id].qstate = DownloadCompleted
    /\ \E k \in 1..Len(op.log) :
          /\ op.log[k].k = "emit"
          /\ op.log[k].n = "finished"
          /\ op.log[k].successful
          /\ op.log[k].done
\* C16: a stateChanged event with a state outside DownloadState raises
\* ValueError out of the handler, and an event with Requested or InProgress
\* raises nothing; none of them changes the item or emits a notification,
\* and the engine's own change to InProgress leaves the flags and emits
\* nothing.
C16_UnknownStateRaises ==
    [][/\ op'.name = "state_event" =>
             /\ op'.exc = "ValueError" <=> op'.input \notin DownloadStates
             /\ op'.exc = "none" <=>
                   op'.input \in {DownloadRequested, DownloadInProgress}
             /\ downloads' = downloads
             /\ op'.log = <<>>
       /\ /\ op'.name = "state_changed"
          /\ downloads'[op'.id].qstate = DownloadInProgress
          => /\ View(downloads'[op'.id]) =
                   <<DownloadInProgress, downloads[op'.id].done,
                     downloads[op'.id].successful>>
             /\ Signals(op'.log) = {}
             /\ op'.exc = "none"]_vars

\* a state that is none of the engine's arrived while the download ran
C16_Witness ==
    /\ op.name = "state_event"
    /\ op.input = DownloadUnknown
    /\ op.exc = "ValueError"
    /\ downloads[op.id].qstate = DownloadInProgress
    /\ ~downloads[op.id].done
\* item i waits for the answer to a question
Asking(i) == Alive(i) /\ downloads[i].question # "none"

Running(j) == Alive(j) /\ downloads[j].qstate = DownloadInProgress

Ended(j) == j \in Ids /\ downloads[j].qstate \in EndStates

\* a download other than j waits for the answer to a question
OtherAsking(j) == \E i \in Ids \ {j} : Asking(i)

C18_StripIdempotent ==
    [][op.name = "_strip_suffix" /\ op'.name = "_strip_suffix"
         => op'.result = op'.input]_vars
\* the two suffixes of the engine, as the spec writes them
Suffixes == { NumSuffix(n) : n \in {"1", "2", "3", "4"} } \cup { IsoSuffix(".") }

\* where a name holds a suffix immediately before a dot or its end
SuffixAt(x) ==
    { at \in (1..Len(x)) \X Suffixes :
        LET last == at[1] + Len(at[2]) - 1
        IN  /\ last <= Len(x)
            /\ SubSeq(x, at[1], last) = at[2]
            /\ last = Len(x) \/ x[last + 1] = "." }

\* the name without its one trailing suffix, every other character kept
WithoutTrailingSuffix(x) ==
    IF SuffixAt(x) = {} THEN x
    ELSE LET at == CHOOSE a \in SuffixAt(x) : \A b \in SuffixAt(x) : b[1] <= a[1]
         IN  SubSeq(x, 1, at[1] - 1) \o SubSeq(x, at[1] + Len(at[2]), Len(x))

(***************************************************************************)
(* C19: of a name that ends, immediately before its extension or its end,   *)
(* in " (N)" or in " - YYYY-MM-DDTHH:MM:SS.mmmZ", _strip_suffix removes     *)
(* exactly that one trailing suffix and no other character; a name with no  *)
(* such suffix is returned unchanged.                                       *)
(* The code removes more: every suffix that stands before a dot, not only   *)
(* the trailing one; "(N)" without the space before it; and a timestamp     *)
(* with any character in the place of the dot before the milliseconds.      *)
(***************************************************************************)
C19_StripsOnlyTrailingSuffix ==
    op.name = "_strip_suffix" => op.result = WithoutTrailingSuffix(op.input)
\* an engine older than 5.15.3
BelowFixed(version) ==
    \/ version[1] < 5
    \/ version[1] = 5 /\ version[2] < 15
    \/ version[1] = 5 /\ version[2] = 15 /\ version[3] < 3

\* the name the engine mis-derives for a data URL: the last segment of the
\* path when the part after the last comma holds a slash, the MIME subtype
\* otherwise
BuggyName(req) ==
    IF \E k \in 1..Len(AfterLast(req.url.path, ",")) :
          AfterLast(req.url.path, ",")[k] = "/"
    THEN AfterLast(req.url.path, "/")
    ELSE AfterLast(req.mime_type, "/")

\* the three conditions of the workaround
WorkaroundDue(in) ==
    /\ BelowFixed(in.version)
    /\ in.req.url.scheme \in {"data", "DATA"}
    /\ in.req.qt_filename = BuggyName(in.req)

RECURSIVE Calls(_)
Calls(log) ==
    IF log = <<>> THEN <<>>
    ELSE IF Head(log).k = "call"
    THEN << <<Head(log).n, Head(log).arg>> >> \o Calls(Tail(log))
    ELSE Calls(Tail(log))

\* a request for "a (1).b" that meets no special target, no viewer, no
\* configured directory and no conflicting download
HappyRequest(in) ==
    /\ in.req.qt_filename = <<"a", " ", "(", "1", ")", ".", "b">>
    /\ _mhtml_target = NoTarget
    /\ ~in.use_pdfjs
    /\ in.immediate = None
    /\ \A j \in Ids :
          \/ downloads[j].done
          \/ downloads[j].basename # NameAB
          \/ downloads[j].origin # in.req.origin
    /\ \A k \in 1..Len(qtnetwork_downloads) :
          \/ qtnetwork_downloads[k].done
          \/ qtnetwork_downloads[k].basename # NameAB
          \/ qtnetwork_downloads[k].origin # in.req.origin

(***************************************************************************)
(* C21: the happy path.  A request with the suggested name "a (1).b" that  *)
(* meets no special target, no viewer, no configured directory and no      *)
(* conflict asks the user with the suggestion "a.b".  When the answer is a *)
(* path whose file does not exist and whose parent exists, the engine gets *)
(* the path's directory and basename and accept() once, and the transfer   *)
(* runs.  The filename stays the answered path while the transfer runs,    *)
(* and when the engine reports Completed the item is done and successful   *)
(* with that filename, and finished is emitted exactly once.               *)
(***************************************************************************)
C21_HappyPath ==
    /\ [][op'.name = "handle_download" /\ HappyRequest(op'.input) =>
            LET new == downloads'[op'.id]
            IN  /\ op'.exc = "none"
                /\ new.question = "filename"
                /\ new.basename = NameAB
                /\ new.qstate = DownloadRequested
                /\ new.filename = None
                /\ Calls(op'.log) = <<>>]_vars
    /\ [][/\ op'.name = "answer_filename"
          /\ op'.input \notin files
          /\ op'.input \notin dirs
          /\ dirname(op'.input) \in dirs
          => LET new == downloads'[op'.id]
             IN  /\ op'.exc = "none"
                 /\ Calls(op'.log) =
                       << <<"setDownloadDirectory", dirname(op'.input)>>,
                          <<"setDownloadFileName", <<basename(op'.input)>> >>,
                          <<"accept", None>> >>
                 /\ new.filename = op'.input
                 /\ new.question = "none"
                 /\ new.qstate = DownloadInProgress
                 /\ ~new.done]_vars
    /\ [][\A i \in Ids :
            downloads[i].qstate = DownloadInProgress /\ ~downloads'[i].destroyed
            => downloads'[i].filename = downloads[i].filename]_vars
    /\ [][op'.name = "state_changed"
          /\ downloads'[op'.id].qstate = DownloadCompleted
          => LET new == downloads'[op'.id]
             IN  /\ new.done
                 /\ new.successful
                 /\ new.filename = downloads[op'.id].filename
                 /\ Cardinality(Emissions(op'.log, "finished")) = 1
                 /\ ~Emitted(op'.log, "cancelled")
                 /\ ~Emitted(op'.log, "error")]_vars

\* the download that was asked for with the suggestion "a.b" and answered
\* with d/a.b has completed
C21_Witness ==
    /\ op.name = "state_changed"
    /\ downloads[op.id].qstate = DownloadCompleted
    /\ downloads[op.id].basename = NameAB
    /\ downloads[op.id].filename = DownloadDir \o <<NameAB>>
    /\ downloads[op.id].done
    /\ downloads[op.id].successful
    /\ Emitted(op.log, "finished")
    /\ DownloadDir \o <<NameAB>> \in files
\* a download that is active under the name and from the page of item it
ConflictsWith(it, other) ==
    /\ ~other.done
    /\ other.basename = it.basename
    /\ other.origin = it.origin

(***************************************************************************)
(* C22: the conflict lookup of an item returns a download if and only if a *)
(* conflicting download exists in the item's own manager or in the         *)
(* qtnetwork download manager; a conflicting download of its own manager   *)
(* is returned before one of the qtnetwork manager; the downloads of both  *)
(* managers are as they were; None is returned when neither manager holds  *)
(* a conflicting download.                                                 *)
(***************************************************************************)
C22_LookupInBothManagers ==
    [][op'.name = "_get_conflicting_download" =>
         LET it == downloads[op'.id]
             sibling == op.input
             own == {k \in Ids \ {op'.id} : ConflictsWith(it, downloads[k])}
             other == {k \in 1..Len(sibling) : ConflictsWith(it, sibling[k])}
             found == op'.result
         IN  /\ found # NoDownload <=> own # {} \/ other # {}
             /\ own # {} =>
                   found.manager = "webengine" /\ found.index \in own
             /\ own = {} /\ other # {} =>
                   found.manager = "qtnetwork" /\ found.index \in other
             /\ own = {} /\ other = {} => found = NoDownload
             /\ op'.input = sibling
             /\ downloads' = downloads]_vars

\* both managers hold a conflicting download, and the one of the item's own
\* manager was returned
C22_Witness ==
    /\ op.name = "_get_conflicting_download"
    /\ op.result.manager = "webengine"
    /\ \E k \in 1..Len(op.input) : ConflictsWith(downloads[op.id], op.input[k])
\* item i was interrupted and then retried: it was disposed of, and its
\* transfer runs again with no cancel under way
Retried(i) ==
    /\ i \in Ids
    /\ downloads[i].dead
    /\ downloads[i].qstate = DownloadInProgress
    /\ downloads[i].pending = "none"

(***************************************************************************)
(* C23: after an item was interrupted and then retried, the progress       *)
(* events of the engine still update the item's statistics, and a          *)
(* following Completed event sets successful and done and emits finished.  *)
(* The code does not keep the first part: the interruption disconnects the *)
(* progress signals (_do_die), and retry() does not connect them again.    *)
(***************************************************************************)
C23_RetriedItemStillReports ==
    [][/\ op'.name = "progress" /\ Retried(op'.id)
          => downloads'[op'.id].stats = op'.input
       /\ op'.name = "state_changed" /\ Retried(op'.id)
             /\ downloads'[op'.id].qstate = DownloadCompleted
          => /\ downloads'[op'.id].successful
             /\ downloads'[op'.id].done
             /\ Emitted(op'.log, "finished")]_vars
\* where a trace calls the engine's accept()
Accepts(log) == {k \in 1..Len(log) : log[k].k = "call" /\ log[k].n = "accept"}

(***************************************************************************)
(* C24: the engine's accept() is called at most once per item and only     *)
(* while the engine's state is Requested, directly after the engine got    *)
(* the directory and the basename of the item's final filename; it is not  *)
(* called for an item that is done (cancelled, or disposed of), nor by a   *)
(* declined or cancelled question, and the filename of an accepted item    *)
(* does not change.                                                        *)
(***************************************************************************)
C24_AcceptOnceWhenRequested ==
    /\ [](\A i \in Ids : downloads[i].accepts <= 1)
    /\ [][ItemStep(op') =>
            LET was == Before(op')
                now == downloads'[op'.id]
                log == op'.log
            IN  /\ now.accepts = was.accepts + Cardinality(Accepts(log))
                /\ \A k \in Accepts(log) :
                      /\ log[k].qstate = DownloadRequested
                      /\ ~log[k].done
                      /\ k >= 3
                      /\ log[k - 2].k = "call"
                      /\ log[k - 2].n = "setDownloadDirectory"
                      /\ log[k - 2].arg = dirname(now.filename)
                      /\ log[k - 1].k = "call"
                      /\ log[k - 1].n = "setDownloadFileName"
                      /\ log[k - 1].arg = <<basename(now.filename)>>
                /\ Accepts(log) # {} =>
                      /\ op'.name \in {"handle_download", "answer_filename",
                                        "answer_yes"}
                      /\ ~was.done /\ ~was.dead
                      /\ was.qstate = DownloadRequested
                      /\ ~Called(log, "cancel")
                /\ was.accepts = 1 => now.filename = was.filename]_vars

\* the overwrite was confirmed, and the download was accepted then for the
\* file that exists
C24_Witness ==
    /\ op.name = "answer_yes"
    /\ Cardinality(Accepts(op.log)) = 1
    /\ downloads[op.id].accepts = 1
    /\ downloads[op.id].qstate = DownloadInProgress
    /\ downloads[op.id].filename = DownloadDir \o <<NameOld>>
\* the last operation handled a stateChanged event with this state for its
\* item: an event of the engine, or the one the engine emits within its
\* cancel() or accept()
Handled(o, now, was, state) ==
    /\ was.stateConn
    /\ \/ o.name = "engine_event" /\ o.input = state
       \/ o.name # "engine_event" /\ was.qstate # state /\ now.qstate = state

(***************************************************************************)
(* C25: in every state of an item successful implies done; successful      *)
(* becomes true only when a Completed event is handled, and every          *)
(* Cancelled or Interrupted event that is handled afterwards makes it      *)
(* false again, so that successful is true only if the last event that     *)
(* ended the transfer was Completed.                                       *)
(***************************************************************************)
C25_SuccessfulOnlyAfterCompleted ==
    /\ [](\A i \in Ids : downloads[i].successful => downloads[i].done)
    /\ [][ItemStep(op') =>
            LET was == Before(op')
                now == downloads'[op'.id]
            IN  /\ now.successful /\ ~was.successful
                      => Handled(op', now, was, DownloadCompleted)
                /\ Handled(op', now, was, DownloadCompleted)
                      => now.successful /\ now.done
                /\ Handled(op', now, was, DownloadCancelled)
                      => ~now.successful
                /\ Handled(op', now, was, DownloadInterrupted)
                      => ~now.successful
                /\ was.successful /\ ~now.successful
                      => \/ Handled(op', now, was, DownloadCancelled)
                         \/ Handled(op', now, was, DownloadInterrupted)
                /\ \A j \in Ids \ {op'.id} : downloads'[j] = downloads[j]]_vars

\* the transfer had completed and written its file, and a Cancelled event
\* that came afterwards has made the item unsuccessful again
C25_Witness ==
    /\ op.name = "engine_event"
    /\ op.input = DownloadCancelled
    /\ downloads[op.id].filename = DownloadDir \o <<NameAB>>
    /\ downloads[op.id].filename \in files
    /\ downloads[op.id].done
    /\ ~downloads[op.id].successful
\* the modules of the selected backend could be imported, and a QtWebKit
\* is not a legacy one
SelectedImported(in) ==
    IF in.backend = "QtWebKit" THEN in.webkit = "ok" ELSE in.webengine = "ok"

BothFailed(in) == in.webkit # "ok" /\ in.webengine # "ok"

\* where a trace holds an entry
Where(log, entry) == {k \in 1..Len(log) : log[k] = entry}

\* the dialog was shown, everything was saved then, a restart came after
\* the saving only, and the process exited at the end
AfterDialog(log) ==
    /\ Len(log) >= 3
    /\ log[1] = "dialog"
    /\ log[Len(log)] = "exit"
    /\ Cardinality(Where(log, "save_all")) = 1
    /\ \A r \in Where(log, "restart") :
          \A s \in Where(log, "save_all") : s < r

\* the later checks run only after the module check has returned
LaterChecksOnlyAfterReturn ==
    /\ [](op.name = "_check_backend_modules" /\ op.exc # "none"
            => ~ENABLED CheckerNext)
    /\ [][op'.name \in {"_check_webengine_version", "_handle_ssl_support"}
            => SelectedImported(op.input) /\ op.exc = "none"]_vars

(***************************************************************************)
(* C26 as stated: the module check returns if and only if the modules of   *)
(* the selected backend could be imported (for QtWebKit: and it is not a   *)
(* legacy one); otherwise the process ends with the exit code err_init,    *)
(* after an error box when both backends failed and after the              *)
(* backend-problem dialog otherwise, which saves everything before any     *)
(* restart; the later checks are not reached.                              *)
(* Violated: with no_err_windows no dialog is shown and nothing is saved,  *)
(* the error is logged and the process exits.                              *)
(***************************************************************************)
C26_ExitAfterBoxOrDialog ==
    /\ LaterChecksOnlyAfterReturn
    /\ [][op'.name = "_check_backend_modules" =>
            /\ op'.exc = "none" <=> SelectedImported(op.input)
            /\ op'.exc = "none" => op'.log = <<>>
            /\ ~SelectedImported(op.input) =>
                  /\ op'.exc = "SystemExit"
                  /\ op'.result = "err_init"
                  /\ IF BothFailed(op.input)
                     THEN op'.log = <<"msgbox", "exit">>
                     ELSE AfterDialog(op'.log)]_vars

(***************************************************************************)
(* C26, amended: the module check returns if and only if the modules of    *)
(* the selected backend could be imported (for QtWebKit: and it is not a   *)
(* legacy one); otherwise the process ends with the exit code err_init:    *)
(* after an error box when both backends failed; else, with                *)
(* no_err_windows, after the error was logged, with no dialog and nothing  *)
(* saved; else after the backend-problem dialog, which saves everything    *)
(* before any restart.  The later checks are not reached.                  *)
(***************************************************************************)
C26_ExitAfterBoxLogOrDialog ==
    /\ LaterChecksOnlyAfterReturn
    /\ [][op'.name = "_check_backend_modules" =>
            /\ op'.exc = "none" <=> SelectedImported(op.input)
            /\ op'.exc = "none" => op'.log = <<>>
            /\ ~SelectedImported(op.input) =>
                  /\ op'.exc = "SystemExit"
                  /\ op'.result = "err_init"
                  /\ IF BothFailed(op.input)
                     THEN op'.log = <<"msgbox", "exit">>
                     ELSE IF op.input.no_err_windows
                     THEN op'.log = <<"log.error", "exit">>
                     ELSE AfterDialog(op'.log)]_vars

\* QtWebEngine was selected and could not be imported; the user forced
\* QtWebKit in the dialog, everything was saved, the restart was started and
\* the process exited
C26_Witness ==
    /\ op.name = "_check_backend_modules"
    /\ op.input.backend = "QtWebEngine"
    /\ op.input.webengine = "fails"
    /\ op.input.webkit = "ok"
    /\ op.exc = "SystemExit"
    /\ op.result = "err_init"
    /\ op.log = <<"dialog", "config.set_obj", "save_all", "restart", "exit">>
=============================================================================
